---- MODULE Spec2Model ----
(***************************************************************************)
(* A model of the ECS core: the entity registry (EntityManager), the       *)
(* sparse-set component pool (ComponentPool<T>), the component registry    *)
(* (ComponentManager) and the orchestrator (Scene) with its priority       *)
(* ordered list of systems.                                                *)
(*                                                                         *)
(* Conventions.  C++ vectors are sequences; the C++ index i is the TLA+    *)
(* index i + 1.  An EntityMask (uint64_t bit string) is the set of the     *)
(* bit positions that are set: | is \cup, & ~m is \ m, NULL_MASK is {}.    *)
(* A member function that throws is an operator returning ok |-> FALSE     *)
(* together with the object as the throw leaves it.                        *)
(***************************************************************************)
EXTENDS Integers, Sequences, FiniteSets, TLC

(***************************************************************************)
(* Bounds of the model.                                                    *)
(***************************************************************************)
\* maxid handed to the stand-alone EntityManager (test.cpp uses 10)
MaxEntities == 3
\* destroys are explored while the slot's generation is below this cap
MaxGen == 2

\* starting ids 1 .. MaxStartID are given to the EntityManager constructed
\* with a starting id of its own
MaxStartID == 2
\* ids 0 .. MaxPoolId are given to the stand-alone ComponentPool
MaxPoolId == 2
\* ids 0 .. MaxCmId are given to the stand-alone ComponentManager
MaxCmId == 1
\* the Scene is asked for entities while it has minted fewer ids than this
MaxSceneEntities == 2

(***************************************************************************)
(* Program constants (types.h).                                            *)
(***************************************************************************)
\* static constexpr EntityMask NULL_MASK { 0 }
NULL_MASK == {}
\* NULL_COMPONENT_INDEX { std::numeric_limits<ComponentIndex>::max() }, that
\* is (size_t)-1: a value no index of a dense array takes
NULL_COMPONENT_INDEX == -1
\* std::numeric_limits<std::size_t>::max(), the default maxid of both
\* managers: written as the largest integer the model checker has, a value
\* no counter of a run comes near
SIZE_MAX == 2147483647
\* the number of bits of EntityMask (uint64_t)
MaskWidth == 64
\* the value of cursor while no update is executing
NoPass == -1
\* the default of the constructor's newid parameter
StartID == 0

VARIABLES
    em,       \* a stand-alone EntityManager
    emLast,   \* the last call made on em and how it ended
    retired,  \* the handles on which a destroy of em succeeded
    pool,     \* a stand-alone ComponentPool<T>
    poolLast, \* the last call made on pool
    sceneEM,  \* the Scene's entityManager
    sceneCM,  \* the Scene's componentManager
    sceneLast,\* the last entity/component call made on the Scene
    built,    \* the handles createEntity built and no destroyEntity was given
    asked,    \* <<entity, type>>: addComponent<type>(entity) was called and
              \* no removeComponent<type>(entity) or destroyEntity(entity) since
    systems,  \* the Scene's systems vector: a sequence of [type, enabled]
    indexMap, \* the Scene's indexMap: system type -> index into systems
    sysLast,  \* the last system call made on the Scene
    invoked,  \* the units whose update the latest update pass invoked, in order
    removed,  \* the system types a removeSystem has removed so far
    cursor,   \* the index update's loop has reached, NoPass outside update
    running,  \* TRUE while the body of the unit at cursor is executing
    visited,  \* the units the loop of the current pass has come to, in order
    atStart,  \* the systems vector as it was when the current pass began
    cm,       \* a stand-alone ComponentManager
    cmLast    \* the last call made on cm and how it ended

emVars == <<em, emLast, retired>>
poolVars == <<pool, poolLast>>
sceneVars == <<sceneEM, sceneCM, sceneLast, built, asked>>
sysVars == <<systems, indexMap, sysLast, invoked, removed>>
passVars == <<cursor, running, visited, atStart>>
cmVars == <<cm, cmLast>>
vars == <<emVars, poolVars, sceneVars, sysVars, passVars, cmVars>>

\* the masks given to the stand-alone EntityManager use two bit positions
Masks == SUBSET {0, 1}
Entities == [id : 0 .. MaxEntities, gen : 0 .. MaxGen]
NoEntity == [id |-> -1, gen |-> -1]

(***************************************************************************)
(* EntityManager (entityManager.cpp).  The same class is named with        *)
(* isValid / createEntity / destroyEntity by its callers (scene.tpp,       *)
(* test.cpp); the definitions are those of isActive / addEntity /          *)
(* removeEntity.                                                           *)
(***************************************************************************)
EntityManager(maxid, newid) ==
    [maxID |-> maxid, newID |-> newid, recycledIDs |-> <<>>,
     entityGens |-> <<>>, entityMasks |-> <<>>]

size(m) == Len(m.entityGens)

isActive_NoGen(m, entity) ==
    IF entity.id >= 0 /\ entity.id < Len(m.entityGens)
    THEN m.entityMasks[entity.id + 1] # NULL_MASK
    ELSE FALSE

\* the mask is not looked at
isActive_NoMask(m, entity) ==
    IF entity.id >= 0 /\ entity.id < Len(m.entityGens)
    THEN m.entityGens[entity.id + 1] = entity.gen
    ELSE FALSE

isActive(m, entity) ==
    IF entity.id >= 0 /\ entity.id < Len(m.entityGens)
    THEN /\ m.entityGens[entity.id + 1] = entity.gen
         /\ m.entityMasks[entity.id + 1] # NULL_MASK
    ELSE FALSE

getMask(m, entity) ==
    IF isActive(m, entity)
    THEN [ok |-> TRUE, ret |-> m.entityMasks[entity.id + 1]]
    ELSE [ok |-> FALSE, ret |-> NULL_MASK]

setMask(m, entity, mask) ==
    IF isActive(m, entity)
    THEN [ok |-> TRUE,
          em |-> [m EXCEPT !.entityMasks[entity.id + 1] = mask]]
    ELSE [ok |-> FALSE, em |-> m]

addMask(m, entity, mask) ==
    IF isActive(m, entity)
    THEN [ok |-> TRUE,
          em |-> [m EXCEPT !.entityMasks[entity.id + 1] = @ \cup mask]]
    ELSE [ok |-> FALSE, em |-> m]

removeMask(m, entity, mask) ==
    IF isActive(m, entity)
    THEN [ok |-> TRUE,
          em |-> [m EXCEPT !.entityMasks[entity.id + 1] = @ \ mask]]
    ELSE [ok |-> FALSE, em |-> m]

\* the id is taken (stack popped or newID advanced) and the mask stored
\* before the validity check that may throw
\* the limit is not tested
addEntity_NoLimit(m, mask) ==
    LET recycle == m.recycledIDs # <<>>
        n       == Len(m.recycledIDs)
        entity  == IF recycle
                   THEN [id  |-> m.recycledIDs[n],
                         gen |-> m.entityGens[m.recycledIDs[n] + 1]]
                   ELSE [id |-> m.newID, gen |-> 0]
        m2      == IF recycle
                   THEN [m EXCEPT !.recycledIDs = SubSeq(@, 1, n - 1),
                                  !.entityMasks[entity.id + 1] = mask]
                   ELSE [m EXCEPT !.newID = @ + 1,
                                  !.entityGens = Append(@, entity.gen),
                                  !.entityMasks = Append(@, mask)]
    IN  [ok |-> isActive(m2, entity), em |-> m2, entity |-> entity]

addEntity(m, mask) ==
    IF m.newID < m.maxID
    THEN LET recycle == m.recycledIDs # <<>>
             n       == Len(m.recycledIDs)
             entity  == IF recycle
                        THEN [id  |-> m.recycledIDs[n],
                              gen |-> m.entityGens[m.recycledIDs[n] + 1]]
                        ELSE [id |-> m.newID, gen |-> 0]
             m2      == IF recycle
                        THEN [m EXCEPT !.recycledIDs = SubSeq(@, 1, n - 1),
                                       !.entityMasks[entity.id + 1] = mask]
                        ELSE [m EXCEPT !.newID = @ + 1,
                                       !.entityGens = Append(@, entity.gen),
                                       !.entityMasks = Append(@, mask)]
         IN  [ok |-> isActive(m2, entity), em |-> m2, entity |-> entity]
    ELSE [ok |-> FALSE, em |-> m, entity |-> NoEntity]

\* EntityGen is uint32_t, so entityGens.at(id)++ wraps to 0 at 2^32.  The
\* model checker's integers end below 2^32, so the counter's width is scaled
\* down: GenModulus stands for 2^32 and lies above every generation the
\* runs with capped destroys (EmDestroy stops at MaxGen) reach.
GenModulus == MaxGen + 2

IncGen(gen) == (gen + 1) % GenModulus

\* the generation is bumped and the id freed, the mask is left in place
removeEntity_MaskKept(m, entity) ==
    IF isActive(m, entity)
    THEN [ok |-> TRUE,
          em |-> [m EXCEPT
                    !.entityGens[entity.id + 1] = IncGen(@),
                    !.recycledIDs = Append(@, entity.id)]]
    ELSE [ok |-> FALSE, em |-> m]

removeEntity(m, entity) ==
    IF isActive(m, entity)
    THEN [ok |-> TRUE,
          em |-> [m EXCEPT
                    !.entityGens[entity.id + 1] = IncGen(@),
                    !.entityMasks[entity.id + 1] = NULL_MASK,
                    !.recycledIDs = Append(@, entity.id)]]
    ELSE [ok |-> FALSE, em |-> m]

(***************************************************************************)
(* ComponentPool<T> (componentPool.tpp): sparseMap maps an id to its index *)
(* in the dense arrays or to NULL_COMPONENT_INDEX, denseMap maps a dense   *)
(* index back to its id, densePool holds the components.                   *)
(***************************************************************************)
ComponentPool == [sparseMap |-> <<>>, denseMap |-> <<>>, densePool |-> <<>>]

PoolSize(p) == Len(p.densePool)

PoolHasComponent(p, id) ==
    IF id < Len(p.sparseMap)
    THEN p.sparseMap[id + 1] # NULL_COMPONENT_INDEX
    ELSE FALSE

\* an absent id is answered with a default component instead of a throw
PoolGetComponent_Default(p, id) ==
    IF PoolHasComponent(p, id)
    THEN [ok |-> TRUE, ret |-> p.densePool[p.sparseMap[id + 1] + 1]]
    ELSE [ok |-> TRUE, ret |-> "none"]

PoolGetComponent(p, id) ==
    IF PoolHasComponent(p, id)
    THEN [ok |-> TRUE, ret |-> p.densePool[p.sparseMap[id + 1] + 1]]
    ELSE [ok |-> FALSE, ret |-> "none"]

\* sparseMap.resize(n, NULL_COMPONENT_INDEX) for n > sparseMap.size()
Resize(sparse, n) ==
    sparse \o [i \in 1 .. n - Len(sparse) |-> NULL_COMPONENT_INDEX]

\* the component is appended whether or not the id has one
PoolAssignComponent_Appending(p, id, component) ==
    LET q == IF id >= Len(p.sparseMap)
             THEN [p EXCEPT !.sparseMap = Resize(@, id + 1)]
             ELSE p
    IN  [q EXCEPT !.densePool = Append(@, component),
                  !.denseMap = Append(@, id),
                  !.sparseMap[id + 1] = Len(q.densePool)]

PoolAssignComponent(p, id, component) ==
    LET q == IF id >= Len(p.sparseMap)
             THEN [p EXCEPT !.sparseMap = Resize(@, id + 1)]
             ELSE p
    IN  IF PoolHasComponent(q, id)
        THEN [q EXCEPT !.densePool[q.sparseMap[id + 1] + 1] = component]
        ELSE [q EXCEPT !.densePool = Append(@, component),
                       !.denseMap = Append(@, id),
                       !.sparseMap[id + 1] = Len(q.densePool)]

\* the moved id's sparse entry is left pointing at the popped slot
PoolUnassignComponent_NoFixup(p, id) ==
    IF PoolHasComponent(p, id)
    THEN LET indexToRemove == p.sparseMap[id + 1]
             lastIndex     == Len(p.densePool) - 1
             lastIndexID   == p.denseMap[lastIndex + 1]
         IN  [sparseMap |-> [p.sparseMap EXCEPT
                               ![id + 1] = NULL_COMPONENT_INDEX],
              denseMap  |-> SubSeq([p.denseMap EXCEPT
                               ![indexToRemove + 1] = lastIndexID],
                               1, lastIndex),
              densePool |-> SubSeq([p.densePool EXCEPT
                               ![indexToRemove + 1] = p.densePool[lastIndex + 1]],
                               1, lastIndex)]
    ELSE p

\* the last id is moved into the hole but its component is not
PoolUnassignComponent_NoCopy(p, id) ==
    IF PoolHasComponent(p, id)
    THEN LET indexToRemove == p.sparseMap[id + 1]
             lastIndex     == Len(p.densePool) - 1
             lastIndexID   == p.denseMap[lastIndex + 1]
         IN  [sparseMap |-> [p.sparseMap EXCEPT
                               ![lastIndexID + 1] = indexToRemove,
                               ![id + 1] = NULL_COMPONENT_INDEX],
              denseMap  |-> SubSeq([p.denseMap EXCEPT
                               ![indexToRemove + 1] = lastIndexID],
                               1, lastIndex),
              densePool |-> SubSeq(p.densePool, 1, lastIndex)]
    ELSE p

\* swap-and-pop; the two writes to sparseMap happen in this order, so that
\* for the last element (lastIndexID = id) the sentinel is what stays
PoolUnassignComponent(p, id) ==
    IF PoolHasComponent(p, id)
    THEN LET indexToRemove == p.sparseMap[id + 1]
             lastIndex     == Len(p.densePool) - 1
             lastIndexID   == p.denseMap[lastIndex + 1]
         IN  [sparseMap |-> [p.sparseMap EXCEPT
                               ![lastIndexID + 1] = indexToRemove,
                               ![id + 1] = NULL_COMPONENT_INDEX],
              denseMap  |-> SubSeq([p.denseMap EXCEPT
                               ![indexToRemove + 1] = lastIndexID],
                               1, lastIndex),
              densePool |-> SubSeq([p.densePool EXCEPT
                               ![indexToRemove + 1] = p.densePool[lastIndex + 1]],
                               1, lastIndex)]
    ELSE p

(***************************************************************************)
(* ComponentManager (componentManager.tpp).  idMap maps a registered type  *)
(* to its id; maskMap and componentPools are indexed by that id.           *)
(***************************************************************************)
ComponentTypes == {"Position", "Velocity"}

ComponentManager(maxid, nextid) ==
    [maxID |-> maxid, nextID |-> nextid, idMap |-> <<>>,
     maskMap |-> <<>>, componentPools |-> <<>>]

isComponentTypeRegistered(c, T) == T \in DOMAIN c.idMap

getComponentTypeID(c, T) ==
    IF T \in DOMAIN c.idMap
    THEN [ok |-> TRUE, cm |-> c, ret |-> c.idMap[T]]
    ELSE IF c.nextID < c.maxID
         THEN [ok |-> TRUE,
               cm |-> [c EXCEPT !.nextID = @ + 1,
                                !.idMap = (T :> c.nextID) @@ @],
               ret |-> c.nextID]
         ELSE [ok |-> FALSE, cm |-> c, ret |-> -1]

\* vector::resize(n) with value-initialised new elements: a zero mask, a
\* null pool pointer
ResizeWith(seq, n, value) ==
    IF n > Len(seq) THEN seq \o [i \in 1 .. n - Len(seq) |-> value]
    ELSE SubSeq(seq, 1, n)

\* 1ULL << typeID for a typeID below the mask's width: the mask with the
\* single bit typeID
TypeBit(typeID) == {typeID}

\* 1ULL << typeID as the build evaluates it.  For typeID >= MaskWidth the
\* shift is undefined: a build that hands the count to the processor's shift
\* instruction gets the count taken modulo the width, others give zero.
ShiftedOne(typeID) ==
    IF typeID < MaskWidth THEN {TypeBit(typeID)}
    ELSE {NULL_MASK, TypeBit(typeID % MaskWidth)}

\* a second registration installs a fresh pool before it reports the error
registerComponentType_Again(c, T) ==
    IF ~isComponentTypeRegistered(c, T)
    THEN LET r == getComponentTypeID(c, T) IN
         IF ~r.ok THEN {[ok |-> FALSE, cm |-> r.cm]}
         ELSE {[ok |-> TRUE,
                cm |-> [r.cm EXCEPT
                          !.maskMap = Append(@, bit),
                          !.componentPools = Append(@, ComponentPool)]] :
                  bit \in ShiftedOne(r.ret)}
    ELSE {[ok |-> FALSE,
           cm |-> [c EXCEPT !.componentPools[c.idMap[T] + 1] = ComponentPool]]}

\* the outcomes of registerComponentType<T>: one, but for a type id at or
\* above the mask's width, where the shift's result is not defined
registerComponentType(c, T) ==
    IF ~isComponentTypeRegistered(c, T)
    THEN LET r == getComponentTypeID(c, T) IN
         IF ~r.ok THEN {[ok |-> FALSE, cm |-> r.cm]}
         ELSE LET typeID == r.ret
                  grown  == IF typeID >= Len(r.cm.componentPools)
                            THEN [r.cm EXCEPT
                                    !.maskMap = ResizeWith(@, typeID + 1, NULL_MASK),
                                    !.componentPools =
                                        ResizeWith(@, typeID + 1, ComponentPool)]
                            ELSE r.cm
              IN  {[ok |-> TRUE,
                    cm |-> [grown EXCEPT
                              !.maskMap[typeID + 1] = bit,
                              !.componentPools[typeID + 1] = ComponentPool]] :
                      bit \in ShiftedOne(typeID)}
    ELSE {[ok |-> FALSE, cm |-> c]}

getComponentTypeMask(c, T) ==
    IF isComponentTypeRegistered(c, T)
    THEN [ok |-> TRUE, ret |-> c.maskMap[c.idMap[T] + 1]]
    ELSE [ok |-> FALSE, ret |-> NULL_MASK]

getPool(c, T) == c.componentPools[c.idMap[T] + 1]

CmHasComponent(c, T, id) ==
    IF isComponentTypeRegistered(c, T)
    THEN PoolHasComponent(getPool(c, T), id)
    ELSE FALSE

CmGetComponent(c, T, id) ==
    IF isComponentTypeRegistered(c, T)
    THEN PoolGetComponent(getPool(c, T), id)
    ELSE [ok |-> FALSE, ret |-> "none"]

\* ComponentManager::hasComponent as a call: it returns in both branches
CmHasComponentCall(c, T, id) == [ok |-> TRUE, ret |-> CmHasComponent(c, T, id)]

\* an unregistered type is registered on the way instead of refused
CmAssignComponent_Registering(c, T, id, component) ==
    LET c2 == IF isComponentTypeRegistered(c, T) THEN c
              ELSE [c EXCEPT !.nextID = @ + 1,
                             !.idMap = (T :> c.nextID) @@ @,
                             !.maskMap = Append(@, TypeBit(c.nextID)),
                             !.componentPools = Append(@, ComponentPool)]
    IN  [ok |-> TRUE,
         cm |-> [c2 EXCEPT !.componentPools[c2.idMap[T] + 1] =
                               PoolAssignComponent(@, id, component)]]

CmAssignComponent(c, T, id, component) ==
    IF isComponentTypeRegistered(c, T)
    THEN [ok |-> TRUE,
          cm |-> [c EXCEPT !.componentPools[c.idMap[T] + 1] =
                               PoolAssignComponent(@, id, component)]]
    ELSE [ok |-> FALSE, cm |-> c]

CmUnassignComponent(c, T, id) ==
    IF isComponentTypeRegistered(c, T)
    THEN [ok |-> TRUE,
          cm |-> [c EXCEPT !.componentPools[c.idMap[T] + 1] =
                               PoolUnassignComponent(@, id)]]
    ELSE [ok |-> FALSE, cm |-> c]

\* every pool's sparse index is grown to cover the id before the unassign
entityDestroyed_Resizing(c, id) ==
    [c EXCEPT !.componentPools =
        [i \in 1 .. Len(@) |->
            PoolUnassignComponent(
                IF id >= Len(@[i].sparseMap)
                THEN [@[i] EXCEPT !.sparseMap = Resize(@, id + 1)]
                ELSE @[i], id)]]

entityDestroyed(c, id) ==
    [c EXCEPT !.componentPools =
        [i \in 1 .. Len(@) |-> PoolUnassignComponent(@[i], id)]]

(***************************************************************************)
(* Scene, entity and component facade (scene.tpp).  The Scene calls its    *)
(* EntityManager by the names isValid, createEntity and destroyEntity.     *)
(***************************************************************************)
\* only the slot's existence is asked for
isEntityValid_SlotOnly(m, entity) ==
    entity.id >= 0 /\ entity.id < Len(m.entityGens)

isEntityValid(m, entity) == isActive(m, entity)

SceneGetMask(m, entity) ==
    IF isEntityValid(m, entity) THEN getMask(m, entity)
    ELSE [ok |-> FALSE, ret |-> NULL_MASK]

createEntity(m) == addEntity(m, NULL_MASK)

destroyEntity(m, c, entity) ==
    IF isEntityValid(m, entity)
    THEN LET r == removeEntity(m, entity) IN
         IF r.ok
         THEN [ok |-> TRUE, em |-> r.em, cm |-> entityDestroyed(c, entity.id)]
         ELSE [ok |-> FALSE, em |-> r.em, cm |-> c]
    ELSE [ok |-> FALSE, em |-> m, cm |-> c]

\* the OR of the masks of the types Ts; throws when one is not registered
requiredMask(c, Ts) ==
    IF \A T \in Ts : isComponentTypeRegistered(c, T)
    THEN [ok |-> TRUE,
          ret |-> UNION {getComponentTypeMask(c, T).ret : T \in Ts}]
    ELSE [ok |-> FALSE, ret |-> NULL_MASK]

hasComponents(m, c, entity, Ts) ==
    IF isEntityValid(m, entity)
    THEN LET required == requiredMask(c, Ts)
             mask     == getMask(m, entity)
         IN  IF required.ok /\ mask.ok
             THEN [ok |-> TRUE,
                   ret |-> (mask.ret \cap required.ret) = required.ret]
             ELSE [ok |-> FALSE, ret |-> FALSE]
    ELSE [ok |-> FALSE, ret |-> FALSE]

hasComponent(m, c, entity, T) ==
    IF isEntityValid(m, entity) THEN hasComponents(m, c, entity, {T})
    ELSE [ok |-> FALSE, ret |-> FALSE]

getComponent(m, c, entity, T) ==
    IF isEntityValid(m, entity) THEN CmGetComponent(c, T, entity.id)
    ELSE [ok |-> FALSE, ret |-> "none"]

\* the component is assigned without asking whether the entity is valid
addComponent_Unchecked(m, c, entity, T, component) ==
    LET a == CmAssignComponent(c, T, entity.id, component) IN
    IF ~a.ok THEN [ok |-> FALSE, em |-> m, cm |-> c]
    ELSE LET b == addMask(m, entity, getComponentTypeMask(a.cm, T).ret)
         IN  [ok |-> b.ok, em |-> b.em, cm |-> a.cm]

\* assignComponent, then addMask; a throw of the second leaves the first done
addComponent(m, c, entity, T, component) ==
    IF isEntityValid(m, entity)
    THEN LET a == CmAssignComponent(c, T, entity.id, component) IN
         IF ~a.ok THEN [ok |-> FALSE, em |-> m, cm |-> c]
         ELSE LET b == addMask(m, entity, getComponentTypeMask(a.cm, T).ret)
              IN  [ok |-> b.ok, em |-> b.em, cm |-> a.cm]
    ELSE [ok |-> FALSE, em |-> m, cm |-> c]

removeComponent(m, c, entity, T) ==
    IF isEntityValid(m, entity)
    THEN LET a == CmUnassignComponent(c, T, entity.id) IN
         IF ~a.ok THEN [ok |-> FALSE, em |-> m, cm |-> c]
         ELSE LET b == removeMask(m, entity, getComponentTypeMask(a.cm, T).ret)
              IN  [ok |-> b.ok, em |-> b.em, cm |-> a.cm]
    ELSE [ok |-> FALSE, em |-> m, cm |-> c]

\* EntityManager::getValidEntities: every currently valid handle, one per
\* identifier, here in identifier order
RECURSIVE getValidEntities(_, _)
getValidEntities(m, id) ==
    IF id >= Len(m.entityGens) THEN <<>>
    ELSE LET entity == [id |-> id, gen |-> m.entityGens[id + 1]] IN
         (IF isActive(m, entity) THEN <<entity>> ELSE <<>>)
             \o getValidEntities(m, id + 1)

getEntitiesWith(m, c, Ts) ==
    LET validEntities == getValidEntities(m, 0)
        required      == requiredMask(c, Ts)
        keep(entity)  == (getMask(m, entity).ret \cap required.ret) = required.ret
    IN  IF required.ok
        THEN [ok |-> TRUE, ret |-> SelectSeq(validEntities, keep)]
        ELSE [ok |-> FALSE, ret |-> <<>>]

(***************************************************************************)
(* Scene, systems (scene.tpp).  A system is its type and its enabled flag; *)
(* getPriority is fixed per type.  MovementSystem and TerminationSystem    *)
(* are the units of the test program; AuditSystem stands for a client unit *)
(* that shares TerminationSystem's priority.                               *)
(***************************************************************************)
SystemTypes == {"TerminationSystem", "AuditSystem", "MovementSystem"}

getPriority(T) ==
    CASE T = "MovementSystem"    -> 200
      [] T = "TerminationSystem" -> 100
      [] T = "AuditSystem"       -> 100

\* System's default member initialiser: a new unit is enabled
NewSystem(T) == [type |-> T, enabled |-> TRUE]

hasSystem(map, T) == T \in DOMAIN map

rebuildMap(sys) ==
    [T \in {sys[k].type : k \in 1 .. Len(sys)} |->
        (CHOOSE k \in 1 .. Len(sys) : sys[k].type = T) - 1]

IsPermutation(a, b) ==
    /\ Len(a) = Len(b)
    /\ \E f \in [1 .. Len(a) -> 1 .. Len(a)] :
          /\ \A i, j \in 1 .. Len(a) : f[i] = f[j] => i = j
          /\ \A i \in 1 .. Len(a) : b[i] = a[f[i]]

SortedByPriority(sys) ==
    \A i, j \in 1 .. Len(sys) :
        i < j => ~(getPriority(sys[j].type) < getPriority(sys[i].type))

\* the vector is left as it is
sortSystems_Unsorted(sys) ==
    {[systems |-> sys, indexMap |-> rebuildMap(sys)]}

\* std::sort by priority, then rebuildMap.  std::sort orders by the
\* comparator and leaves the order of equivalent elements unspecified, so
\* every priority-sorted permutation is an outcome.
sortSystems(sys) ==
    {[systems |-> sorted, indexMap |-> rebuildMap(sorted)] :
        sorted \in {t \in [1 .. Len(sys) -> {sys[k] : k \in 1 .. Len(sys)}] :
                       IsPermutation(sys, t) /\ SortedByPriority(t)}}

\* the unit is added whether or not its type is present
addSystem_NoCheck(sys, map, T) == sortSystems(Append(sys, NewSystem(T)))

\* the outcomes of addSystem<T>; none when it throws
addSystem(sys, map, T) ==
    IF ~hasSystem(map, T) THEN sortSystems(Append(sys, NewSystem(T)))
    ELSE {}

\* the unit is erased and indexMap is left as it was
removeSystem_StaleMap(sys, map, T) ==
    IF hasSystem(map, T)
    THEN LET systemIndex == map[T]
             erased == [k \in 1 .. Len(sys) - 1 |->
                           IF k <= systemIndex THEN sys[k] ELSE sys[k + 1]]
         IN  [ok |-> TRUE, systems |-> erased, indexMap |-> map]
    ELSE [ok |-> FALSE, systems |-> sys, indexMap |-> map]

\* vector::erase at systemIndex, then rebuildMap
removeSystem(sys, map, T) ==
    IF hasSystem(map, T)
    THEN LET systemIndex == map[T]
             erased == [k \in 1 .. Len(sys) - 1 |->
                           IF k <= systemIndex THEN sys[k] ELSE sys[k + 1]]
         IN  [ok |-> TRUE, systems |-> erased, indexMap |-> rebuildMap(erased)]
    ELSE [ok |-> FALSE, systems |-> sys, indexMap |-> map]

getSystem(sys, map, T) ==
    IF hasSystem(map, T) THEN [ok |-> TRUE, ret |-> sys[map[T] + 1]]
    ELSE [ok |-> FALSE, ret |-> NewSystem("none")]

isSystemEnabled(sys, map, T) ==
    IF hasSystem(map, T) THEN [ok |-> TRUE, ret |-> sys[map[T] + 1].enabled]
    ELSE [ok |-> FALSE, ret |-> FALSE]

\* the flag is flipped instead of set
setSystemEnabled_Toggle(sys, map, T, isEnabled) ==
    IF hasSystem(map, T)
    THEN [ok |-> TRUE,
          systems |-> [sys EXCEPT ![map[T] + 1].enabled = ~@]]
    ELSE [ok |-> FALSE, systems |-> sys]

setSystemEnabled(sys, map, T, isEnabled) ==
    IF hasSystem(map, T)
    THEN [ok |-> TRUE, systems |-> [sys EXCEPT ![map[T] + 1].enabled = isEnabled]]
    ELSE [ok |-> FALSE, systems |-> sys]

\* the flag Scene::update reads at start, not when the unit's turn comes
isEnabledAtTurn_Snapshot(sys, start, k) == start[k + 1].enabled

\* the unit is invoked whatever its flag
isEnabledAtTurn_Always(sys, start, k) == TRUE

\* system->isEnabled() as Scene::update's loop reads it for the unit at
\* index k: the flag the vector holds at that moment
isEnabledAtTurn(sys, start, k) == sys[k + 1].enabled

\* the units Scene::update invokes, in the order it invokes them
RECURSIVE update(_)
update(sys) ==
    IF sys = <<>> THEN <<>>
    ELSE (IF Head(sys).enabled THEN <<Head(sys).type>> ELSE <<>>)
             \o update(Tail(sys))

(***************************************************************************)
(* Calls on the stand-alone EntityManager.  emLast keeps the call's name,  *)
(* whether it returned (ok) or threw, the handle it was about (the handle  *)
(* a create returned, the handle a destroy was given) and the mask a       *)
(* create was given.                                                       *)
(***************************************************************************)
Call(op, ok, entity, mask) ==
    [op |-> op, ok |-> ok, entity |-> IF ok THEN entity ELSE NoEntity,
     mask |-> mask]

EmCreate ==
    \E mask \in Masks :
        LET r == addEntity(em, mask) IN
        /\ em' = r.em
        /\ emLast' = Call("addEntity", r.ok, r.entity, mask)
        /\ UNCHANGED <<retired, poolVars, sceneVars, sysVars, passVars, cmVars>>

EmDestroy ==
    \E entity \in Entities :
        LET r == removeEntity(em, entity) IN
        /\ r.ok => entity.gen < MaxGen
        /\ em' = r.em
        /\ emLast' = Call("removeEntity", r.ok, entity, NULL_MASK)
        /\ retired' = IF r.ok THEN retired \cup {entity} ELSE retired
        /\ UNCHANGED <<poolVars, sceneVars, sysVars, passVars, cmVars>>

EmSetMask ==
    \E entity \in Entities, mask \in Masks :
        LET r == setMask(em, entity, mask) IN
        /\ em' = r.em
        /\ emLast' = Call("setMask", r.ok, NoEntity, NULL_MASK)
        /\ UNCHANGED <<retired, poolVars, sceneVars, sysVars, passVars, cmVars>>

(***************************************************************************)
(* Calls on the stand-alone ComponentPool.  poolLast keeps the call's      *)
(* name, its id and the dense index the id had before the call             *)
(* (NULL_COMPONENT_INDEX when it had none).                                *)
(***************************************************************************)
PoolIds == 0 .. MaxPoolId
Components == {"p", "q"}

IndexOf(p, id) ==
    IF PoolHasComponent(p, id) THEN p.sparseMap[id + 1]
    ELSE NULL_COMPONENT_INDEX

PoolAssign ==
    \E id \in PoolIds, component \in Components :
        /\ pool' = PoolAssignComponent(pool, id, component)
        /\ poolLast' = [op |-> "assignComponent", id |-> id,
                        index |-> IndexOf(pool, id)]
        /\ UNCHANGED <<emVars, sceneVars, sysVars, passVars, cmVars>>

PoolUnassign ==
    \E id \in PoolIds :
        /\ pool' = PoolUnassignComponent(pool, id)
        /\ poolLast' = [op |-> "unassignComponent", id |-> id,
                        index |-> IndexOf(pool, id)]
        /\ UNCHANGED <<emVars, sceneVars, sysVars, passVars, cmVars>>

(***************************************************************************)
(* Calls on the Scene's entity and component facade.  sceneLast keeps the  *)
(* call's name, whether it returned (ok) or threw, its handle, its types   *)
(* and what it returned.                                                   *)
(***************************************************************************)
SceneEntities == [id : 0 .. MaxSceneEntities, gen : 0 .. 1]

SceneCall(op, ok, entity, types, ret) ==
    [op |-> op, ok |-> ok, entity |-> entity, types |-> types, ret |-> ret]

SceneCreateEntity ==
    /\ sceneEM.newID < MaxSceneEntities
    /\ LET r == createEntity(sceneEM) IN
       /\ sceneEM' = r.em
       /\ sceneLast' = SceneCall("createEntity", r.ok, r.entity, {}, FALSE)
       /\ built' = built \cup {r.entity}
    /\ UNCHANGED <<sceneCM, asked, emVars, poolVars, sysVars, passVars, cmVars>>

SceneDestroyEntity ==
    \E entity \in SceneEntities :
        LET r == destroyEntity(sceneEM, sceneCM, entity) IN
        /\ sceneEM' = r.em
        /\ sceneCM' = r.cm
        /\ sceneLast' = SceneCall("destroyEntity", r.ok, entity, {}, FALSE)
        /\ built' = built \ {entity}
        /\ asked' = {pair \in asked : pair[1] # entity}
        /\ UNCHANGED <<emVars, poolVars, sysVars, passVars, cmVars>>

SceneRegisterComponent ==
    \E T \in ComponentTypes :
        \E r \in registerComponentType(sceneCM, T) :
        /\ sceneCM' = r.cm
        /\ sceneLast' = SceneCall("registerComponent", r.ok, NoEntity, {T}, FALSE)
        /\ UNCHANGED <<sceneEM, built, asked, emVars, poolVars, sysVars, passVars, cmVars>>

SceneAddComponent ==
    \E entity \in SceneEntities, T \in ComponentTypes, component \in Components :
        LET r == addComponent(sceneEM, sceneCM, entity, T, component) IN
        /\ sceneEM' = r.em
        /\ sceneCM' = r.cm
        /\ sceneLast' = SceneCall("addComponent", r.ok, entity, {T}, FALSE)
        /\ asked' = IF entity \in built /\ isComponentTypeRegistered(sceneCM, T)
                    THEN asked \cup {<<entity, T>>} ELSE asked
        /\ UNCHANGED <<built, emVars, poolVars, sysVars, passVars, cmVars>>

SceneRemoveComponent ==
    \E entity \in SceneEntities, T \in ComponentTypes :
        LET r == removeComponent(sceneEM, sceneCM, entity, T) IN
        /\ sceneEM' = r.em
        /\ sceneCM' = r.cm
        /\ sceneLast' = SceneCall("removeComponent", r.ok, entity, {T}, FALSE)
        /\ asked' = asked \ {<<entity, T>>}
        /\ UNCHANGED <<built, emVars, poolVars, sysVars, passVars, cmVars>>

SceneHasComponent ==
    \E entity \in SceneEntities, T \in ComponentTypes :
        LET r == hasComponent(sceneEM, sceneCM, entity, T) IN
        /\ sceneLast' = SceneCall("hasComponent", r.ok, entity, {T}, r.ret)
        /\ UNCHANGED <<sceneEM, sceneCM, built, asked, emVars, poolVars, sysVars, passVars, cmVars>>

SceneGetEntitiesWith ==
    \E Ts \in SUBSET ComponentTypes \ {{}} :
        LET r == getEntitiesWith(sceneEM, sceneCM, Ts) IN
        /\ sceneLast' = SceneCall("getEntitiesWith", r.ok, NoEntity, Ts, r.ret)
        /\ UNCHANGED <<sceneEM, sceneCM, built, asked, emVars, poolVars, sysVars, passVars, cmVars>>

(***************************************************************************)
(* Calls on the Scene's systems.  sysLast keeps the call's name, its type  *)
(* and whether it returned (ok) or threw.                                  *)
(***************************************************************************)
SysCall(op, T, ok) == [op |-> op, type |-> T, ok |-> ok]

SceneAddSystem ==
    \E T \in SystemTypes :
        /\ cursor = NoPass
        /\ IF hasSystem(indexMap, T)
           THEN /\ UNCHANGED <<systems, indexMap>>
                /\ sysLast' = SysCall("addSystem", T, FALSE)
           ELSE \E r \in addSystem(systems, indexMap, T) :
                /\ systems' = r.systems
                /\ indexMap' = r.indexMap
                /\ sysLast' = SysCall("addSystem", T, TRUE)
        /\ UNCHANGED <<invoked, removed, emVars, poolVars, sceneVars, passVars,
                    cmVars>>

SceneRemoveSystem ==
    \E T \in SystemTypes :
        LET r == removeSystem(systems, indexMap, T) IN
        /\ cursor = NoPass
        /\ systems' = r.systems
        /\ indexMap' = r.indexMap
        /\ sysLast' = SysCall("removeSystem", T, r.ok)
        /\ removed' = IF r.ok THEN removed \cup {T} ELSE removed
        /\ UNCHANGED <<invoked, emVars, poolVars, sceneVars, passVars,
                    cmVars>>

SceneSetSystemEnabled ==
    \E T \in SystemTypes, isEnabled \in BOOLEAN :
        LET r == setSystemEnabled(systems, indexMap, T, isEnabled) IN
        /\ cursor = NoPass \/ running
        /\ systems' = r.systems
        /\ sysLast' = SysCall("setSystemEnabled", T, r.ok)
        /\ UNCHANGED <<indexMap, invoked, removed, emVars, poolVars, sceneVars, passVars,
                    cmVars>>

SceneUpdate ==
    /\ cursor = NoPass
    /\ invoked' = update(systems)
    /\ sysLast' = SysCall("update", "none", TRUE)
    /\ UNCHANGED <<systems, indexMap, removed, emVars, poolVars, sceneVars, passVars,
                    cmVars>>

(***************************************************************************)
(* Scene::update step by step.  The loop comes to the unit at cursor,      *)
(* reads its enabled flag and, if set, calls the unit's update; while the  *)
(* unit's body is executing it may call setSystemEnabled on the Scene it   *)
(* was handed (SceneSetSystemEnabled); when the body returns the loop      *)
(* moves on.  Bodies are taken not to add or remove systems.               *)
(***************************************************************************)
UpdateBegin ==
    /\ cursor = NoPass
    /\ cursor' = 0
    /\ running' = FALSE
    /\ visited' = <<>>
    /\ invoked' = <<>>
    /\ atStart' = systems
    /\ sysLast' = SysCall("update", "none", TRUE)
    /\ UNCHANGED <<systems, indexMap, removed, emVars, poolVars, sceneVars,
                   cmVars>>

UpdateVisit ==
    /\ cursor # NoPass
    /\ ~running
    /\ cursor < Len(systems)
    /\ visited' = Append(visited, systems[cursor + 1].type)
    /\ IF isEnabledAtTurn(systems, atStart, cursor)
       THEN /\ invoked' = Append(invoked, systems[cursor + 1].type)
            /\ running' = TRUE
            /\ UNCHANGED cursor
       ELSE /\ cursor' = cursor + 1
            /\ UNCHANGED <<invoked, running>>
    /\ UNCHANGED <<systems, indexMap, sysLast, removed, atStart, emVars,
                   poolVars, sceneVars, cmVars>>

UpdateBodyReturn ==
    /\ cursor # NoPass
    /\ running
    /\ running' = FALSE
    /\ cursor' = cursor + 1
    /\ UNCHANGED <<sysVars, visited, atStart, emVars, poolVars, sceneVars,
                   cmVars>>

UpdateEnd ==
    /\ cursor # NoPass
    /\ ~running
    /\ ~(cursor < Len(systems))
    /\ cursor' = NoPass
    /\ UNCHANGED <<sysVars, running, visited, atStart, emVars, poolVars,
                   sceneVars, cmVars>>

(***************************************************************************)
(* Calls on the stand-alone ComponentManager, which takes raw ids.  cmLast *)
(* keeps the call's name, whether it returned (ok) or threw, and its type. *)
(***************************************************************************)
CmIds == 0 .. MaxCmId

CmCall(op, ok, T) == [op |-> op, ok |-> ok, type |-> T]

CmRegister ==
    \E T \in ComponentTypes :
        \E r \in registerComponentType(cm, T) :
        /\ cm' = r.cm
        /\ cmLast' = CmCall("registerComponentType", r.ok, T)
        /\ UNCHANGED <<emVars, poolVars, sceneVars, sysVars, passVars>>

CmAssign ==
    \E T \in ComponentTypes, id \in CmIds, component \in Components :
        LET r == CmAssignComponent(cm, T, id, component) IN
        /\ cm' = r.cm
        /\ cmLast' = CmCall("assignComponent", r.ok, T)
        /\ UNCHANGED <<emVars, poolVars, sceneVars, sysVars, passVars>>

CmUnassign ==
    \E T \in ComponentTypes, id \in CmIds :
        LET r == CmUnassignComponent(cm, T, id) IN
        /\ cm' = r.cm
        /\ cmLast' = CmCall("unassignComponent", r.ok, T)
        /\ UNCHANGED <<emVars, poolVars, sceneVars, sysVars, passVars>>

CmEntityDestroyed ==
    \E id \in CmIds :
        /\ cm' = entityDestroyed(cm, id)
        /\ cmLast' = CmCall("entityDestroyed", TRUE, "none")
        /\ UNCHANGED <<emVars, poolVars, sceneVars, sysVars, passVars>>

(***************************************************************************)
(* Registrations on a stand-alone ComponentManager of default              *)
(* configuration, for as many distinct types as the mask has bits and one  *)
(* more.  The types are numbered and registered in the order of their      *)
(* numbers; a registered type may be registered again.                     *)
(***************************************************************************)
WideTypes == 0 .. MaskWidth

WideRegister ==
    \E T \in WideTypes :
        /\ T <= cm.nextID
        /\ \E r \in registerComponentType(cm, T) :
              /\ cm' = r.cm
              /\ cmLast' = CmCall("registerComponentType", r.ok, T)
        /\ UNCHANGED <<emVars, poolVars, sceneVars, sysVars, passVars>>

(***************************************************************************)
(* Creates and destroys on the stand-alone EntityManager without the cap   *)
(* on generations: an identifier is destroyed and created again until its  *)
(* counter has been through every value.                                   *)
(***************************************************************************)
WrapEntities == [id : 0 .. MaxEntities, gen : 0 .. GenModulus - 1]

WrapCreate ==
    LET r == addEntity(em, {0}) IN
    /\ em' = r.em
    /\ emLast' = Call("addEntity", r.ok, r.entity, {0})
    /\ UNCHANGED <<retired, poolVars, sceneVars, sysVars, passVars, cmVars>>

WrapDestroy ==
    \E entity \in WrapEntities :
        LET r == removeEntity(em, entity) IN
        /\ em' = r.em
        /\ emLast' = Call("removeEntity", r.ok, entity, NULL_MASK)
        /\ retired' = IF r.ok THEN retired \cup {entity} ELSE retired
        /\ UNCHANGED <<poolVars, sceneVars, sysVars, passVars, cmVars>>

Init ==
    /\ pool = ComponentPool
    /\ poolLast = [op |-> "none", id |-> 0, index |-> NULL_COMPONENT_INDEX]
    /\ em = EntityManager(MaxEntities, StartID)
    /\ emLast = [op |-> "none", ok |-> TRUE, entity |-> NoEntity,
                 mask |-> NULL_MASK]
    /\ retired = {}
    /\ sceneEM = EntityManager(SIZE_MAX, StartID)
    /\ sceneCM = ComponentManager(SIZE_MAX, 0)
    /\ sceneLast = SceneCall("none", TRUE, NoEntity, {}, FALSE)
    /\ built = {}
    /\ asked = {}
    /\ systems = <<>>
    /\ indexMap = <<>>
    /\ sysLast = SysCall("none", "none", TRUE)
    /\ invoked = <<>>
    /\ removed = {}
    /\ cursor = NoPass
    /\ running = FALSE
    /\ visited = <<>>
    /\ atStart = <<>>
    /\ cm = ComponentManager(SIZE_MAX, 0)
    /\ cmLast = CmCall("none", TRUE, "none")

\* as Init, but the stand-alone EntityManager is constructed with a
\* starting id newid > 0 and room for MaxEntities identifiers above it
InitOffset ==
    /\ pool = ComponentPool
    /\ poolLast = [op |-> "none", id |-> 0, index |-> NULL_COMPONENT_INDEX]
    /\ \E newid \in 1 .. MaxStartID :
          em = EntityManager(MaxEntities + newid, newid)
    /\ emLast = [op |-> "none", ok |-> TRUE, entity |-> NoEntity,
                 mask |-> NULL_MASK]
    /\ retired = {}
    /\ sceneEM = EntityManager(SIZE_MAX, StartID)
    /\ sceneCM = ComponentManager(SIZE_MAX, 0)
    /\ sceneLast = SceneCall("none", TRUE, NoEntity, {}, FALSE)
    /\ built = {}
    /\ asked = {}
    /\ systems = <<>>
    /\ indexMap = <<>>
    /\ sysLast = SysCall("none", "none", TRUE)
    /\ invoked = <<>>
    /\ removed = {}
    /\ cursor = NoPass
    /\ running = FALSE
    /\ visited = <<>>
    /\ atStart = <<>>
    /\ cm = ComponentManager(SIZE_MAX, 0)
    /\ cmLast = CmCall("none", TRUE, "none")

NextRegistry ==
    \/ EmCreate
    \/ EmDestroy
    \/ EmSetMask

SpecRegistry == Init /\ [][NextRegistry]_vars

SpecOffset == InitOffset /\ [][NextRegistry]_vars

NextPool ==
    \/ PoolAssign
    \/ PoolUnassign

SpecPool == Init /\ [][NextPool]_vars

NextScene ==
    \/ SceneCreateEntity
    \/ SceneDestroyEntity
    \/ SceneRegisterComponent
    \/ SceneAddComponent
    \/ SceneRemoveComponent
    \/ SceneHasComponent
    \/ SceneGetEntitiesWith

SpecScene == Init /\ [][NextScene]_vars

NextSystems ==
    \/ SceneAddSystem
    \/ SceneRemoveSystem
    \/ SceneSetSystemEnabled
    \/ SceneUpdate

SpecSystems == Init /\ [][NextSystems]_vars

NextComponents ==
    \/ CmRegister
    \/ CmAssign
    \/ CmUnassign
    \/ CmEntityDestroyed

SpecComponents == Init /\ [][NextComponents]_vars

NextWrap ==
    \/ WrapCreate
    \/ WrapDestroy

SpecWrap == Init /\ [][NextWrap]_vars

NextWide ==
    \/ WideRegister

SpecWide == Init /\ [][NextWide]_vars

NextPass ==
    \/ SceneAddSystem
    \/ SceneSetSystemEnabled
    \/ UpdateBegin
    \/ UpdateVisit
    \/ UpdateBodyReturn
    \/ UpdateEnd

\* update is an ordinary synchronous call: its loop and the bodies it calls
\* keep running until they return
SpecPass ==
    /\ Init
    /\ [][NextPass]_vars
    /\ WF_vars(UpdateVisit)
    /\ WF_vars(UpdateBodyReturn)
    /\ WF_vars(UpdateEnd)

(***************************************************************************)
(* Properties of the entity registry.                                      *)
(***************************************************************************)

CreateAfterDestroyRecycles ==
    [][/\ (/\ emLast.op = "removeEntity" /\ emLast.ok
           /\ emLast'.op = "addEntity" /\ emLast'.mask # NULL_MASK)
          => /\ emLast'.ok
             /\ emLast'.entity = [id  |-> emLast.entity.id,
                                  gen |-> emLast.entity.gen + 1]
             /\ ~isActive(em', emLast.entity)
             /\ isActive(em', emLast'.entity)
       /\ em'.newID # em.newID
          => /\ em.recycledIDs = <<>>
             /\ em'.newID = em.newID + 1
             /\ em'.entityGens = Append(em.entityGens, 0)
      ]_vars

(***************************************************************************)
(* Properties of the component pool.                                       *)
(***************************************************************************)

\* C6: the dense value array and the dense-slot-to-id map have equal length,
\* every id with a non-sentinel sparse entry s has s below that length and
\* denseMap[s] = id, and every dense slot's id maps back to that slot.
PoolDenseSparseConsistent ==
    /\ Len(pool.denseMap) = Len(pool.densePool)
    /\ \A id \in 0 .. Len(pool.sparseMap) - 1 :
          LET s == pool.sparseMap[id + 1] IN
          s # NULL_COMPONENT_INDEX
            => /\ s >= 0 /\ s < Len(pool.densePool)
               /\ pool.denseMap[s + 1] = id
    /\ \A slot \in 0 .. Len(pool.denseMap) - 1 :
          LET id == pool.denseMap[slot + 1] IN
          /\ id < Len(pool.sparseMap)
          /\ pool.sparseMap[id + 1] = slot

\* C6 witness: the first of three dense slots has just been unassigned, so
\* the last element was moved into it.
PoolFirstOfThreeUnassigned ==
    /\ poolLast.op = "unassignComponent"
    /\ poolLast.index = 0
    /\ Len(pool.densePool) = 2

\* C7: unassigning a present id makes has(id) false, shrinks the pool by
\* exactly one and leaves every other present id present with its value.
UnassignKeepsOthers ==
    [][(poolLast'.op = "unassignComponent"
          /\ PoolHasComponent(pool, poolLast'.id))
        => /\ ~PoolHasComponent(pool', poolLast'.id)
           /\ PoolSize(pool') = PoolSize(pool) - 1
           /\ \A id \in PoolIds \ {poolLast'.id} :
                 PoolHasComponent(pool, id)
                   => /\ PoolHasComponent(pool', id)
                      /\ PoolGetComponent(pool', id)
                           = PoolGetComponent(pool, id)
      ]_vars

\* C7 witness: the middle one of three dense slots has just been unassigned.
PoolMiddleOfThreeUnassigned ==
    /\ poolLast.op = "unassignComponent"
    /\ poolLast.index = 1
    /\ Len(pool.densePool) = 2

(***************************************************************************)
(* Properties of the Scene's entity and component facade.                  *)
(***************************************************************************)

\* C3: whenever Scene::createEntity has just been called (capacity is never
\* exhausted here), it returned a handle, isEntityValid is true of that
\* handle and getMask of it returns NULL_MASK.
CreateEntityReturnsValidEmpty ==
    sceneLast.op = "createEntity"
        => /\ sceneLast.ok
           /\ isEntityValid(sceneEM, sceneLast.entity)
           /\ SceneGetMask(sceneEM, sceneLast.entity).ok
           /\ SceneGetMask(sceneEM, sceneLast.entity).ret = NULL_MASK

\* C4: for every entity createEntity built and every registered type T,
\* hasComponent<T>(e) returns true if and only if an addComponent<T>(e) has
\* been called and no removeComponent<T>(e) or destroyEntity(e) since.
HasComponentIffAdded ==
    \A entity \in built, T \in ComponentTypes :
        isComponentTypeRegistered(sceneCM, T)
            => LET r == hasComponent(sceneEM, sceneCM, entity, T) IN
               (r.ok /\ r.ret) <=> (<<entity, T>> \in asked)

QueryReturnsExactlyMatching ==
    (sceneLast.op = "getEntitiesWith" /\ sceneLast.ok)
        => /\ \A entity \in SceneEntities :
                (\E k \in 1 .. Len(sceneLast.ret) : sceneLast.ret[k] = entity)
                    <=> /\ isEntityValid(sceneEM, entity)
                        /\ \A T \in sceneLast.types :
                              sceneCM.idMap[T] \in getMask(sceneEM, entity).ret
           /\ \A k, l \in 1 .. Len(sceneLast.ret) :
                sceneLast.ret[k] = sceneLast.ret[l] => k = l

\* a query over registered types that returned at least one handle
QueryReturnedSomeEntity ==
    /\ sceneLast.op = "getEntitiesWith"
    /\ sceneLast.ok
    /\ sceneLast.ret # <<>>

(***************************************************************************)
(* Properties of the Scene's systems.                                      *)
(***************************************************************************)

\* C9: in every update pass, for any two present, enabled units a and b
\* with getPriority(a) < getPriority(b), the pass invokes each of them once
\* and a before b, whatever addSystem / removeSystem calls came before.
LowerPriorityInvokedFirst ==
    [][sysLast'.op = "update"
        => \A a, b \in DOMAIN indexMap :
              (/\ isSystemEnabled(systems, indexMap, a).ret
               /\ isSystemEnabled(systems, indexMap, b).ret
               /\ getPriority(a) < getPriority(b))
                 => \E i, j \in 1 .. Len(invoked') :
                       /\ i < j
                       /\ invoked'[i] = a
                       /\ invoked'[j] = b
                       /\ \A k \in 1 .. Len(invoked') :
                             /\ invoked'[k] = a => k = i
                             /\ invoked'[k] = b => k = j
      ]_vars

\* C9 witness: a pass has just invoked MovementSystem and a unit of lower
\* priority, MovementSystem having been added first, removed and added
\* again.
PassAfterReAdd ==
    /\ sysLast.op = "update"
    /\ "MovementSystem" \in removed
    /\ \E i, j \in 1 .. Len(invoked) :
          /\ i < j
          /\ getPriority(invoked[i]) < getPriority(invoked[j])
          /\ invoked[j] = "MovementSystem"

\* C10: an addSystem never changes the relative order of two units that
\* were already present and have the same priority.
AddKeepsOrderOfEqualPriority ==
    [][(sysLast'.op = "addSystem" /\ sysLast'.ok)
        => \A a, b \in DOMAIN indexMap :
              getPriority(a) = getPriority(b)
                => ((indexMap[a] < indexMap[b]) <=> (indexMap'[a] < indexMap'[b]))
      ]_vars

\* C11: an update pass comes to each unit of the list exactly once, in list
\* order, and ends; it invokes a unit's update if and only if the unit is
\* enabled when its turn comes (so a unit disabled throughout is never
\* invoked and nothing it would do is done).
UpdateVisitsEachUnitOnce ==
    /\ [][(cursor # NoPass /\ cursor' = NoPass)
            => visited = [k \in 1 .. Len(systems) |-> systems[k].type]]_vars
    /\ [][(cursor # NoPass /\ Len(visited') = Len(visited) + 1)
            => LET T == visited'[Len(visited')] IN
               IF isSystemEnabled(systems, indexMap, T).ret
               THEN invoked' = Append(invoked, T)
               ELSE invoked' = invoked]_vars
    /\ (cursor # NoPass) ~> (cursor = NoPass)

\* C11 witness: a pass over three units has ended with no setSystemEnabled
\* call since it began, and one unit, disabled throughout, was not invoked.
PassSkippedDisabledUnit ==
    /\ cursor = NoPass
    /\ sysLast.op = "update"
    /\ Len(visited) = 3
    /\ Len(invoked) = 2

\* C12: when a unit's turn comes with a flag that differs from the flag it
\* had at the start of the pass, the unit is invoked if and only if its
\* flag is set now; and what a pass has invoked so far is never taken back.
FlagReadWhenTurnComes ==
    /\ [][(/\ cursor # NoPass
            /\ Len(visited') = Len(visited) + 1
            /\ systems[cursor + 1].enabled # atStart[cursor + 1].enabled)
            => IF systems[cursor + 1].enabled
               THEN invoked' = Append(invoked, systems[cursor + 1].type)
               ELSE invoked' = invoked]_vars
    /\ [][(cursor # NoPass /\ cursor' # NoPass /\ Len(invoked) <= Len(invoked'))
            => SubSeq(invoked', 1, Len(invoked)) = invoked]_vars
    /\ [][cursor # NoPass => Len(invoked) <= Len(invoked')]_vars

\* C12 witness: a pass has ended in which a unit enabled at the start was
\* disabled before its turn and not invoked, a unit disabled at the start
\* was enabled before its turn and invoked, and a unit disabled after its
\* run stays invoked.
PassWithFlagsChangedMidway ==
    /\ cursor = NoPass
    /\ Len(atStart) = 3
    /\ \E i, j, k \in 1 .. 3 :
          /\ atStart[i].enabled
          /\ \A n \in 1 .. Len(invoked) : invoked[n] # atStart[i].type
          /\ ~atStart[j].enabled
          /\ \E n \in 1 .. Len(invoked) : invoked[n] = atStart[j].type
          /\ \E n \in 1 .. Len(invoked) : invoked[n] = atStart[k].type
          /\ ~isSystemEnabled(systems, indexMap, atStart[k].type).ret
          /\ k < j

\* C13: in every state, for every unit type S and value v, calling
\* setSystemEnabled<S>(v) a second time right after the first ends as the
\* first did and leaves every flag and the unit order as the first call
\* left them (the index map is not touched by either), and an update pass
\* invokes the same units after two calls as after one.
SetSystemEnabledIdempotent ==
    \A T \in SystemTypes, v \in BOOLEAN :
        LET once  == setSystemEnabled(systems, indexMap, T, v)
            twice == setSystemEnabled(once.systems, indexMap, T, v)
        IN  /\ twice.ok = once.ok
            /\ twice.systems = once.systems
            /\ update(twice.systems) = update(once.systems)

\* C13 witness: a setSystemEnabled has just returned in a Scene of three
\* units of which one is now disabled.
SomeUnitDisabledByCall ==
    /\ sysLast.op = "setSystemEnabled"
    /\ sysLast.ok
    /\ Len(systems) = 3
    /\ ~isSystemEnabled(systems, indexMap, sysLast.type).ret

(***************************************************************************)
(* Properties of the component registry.                                   *)
(***************************************************************************)

\* C14: registering a type that is already registered throws and leaves
\* the ComponentManager as it was: ids, masks, the number of pools, the
\* next type id and every stored component.
DoubleRegistrationChangesNothing ==
    [][(/\ cmLast'.op = "registerComponentType"
        /\ isComponentTypeRegistered(cm, cmLast'.type))
        => (~cmLast'.ok /\ cm' = cm)]_vars

\* C14 witness: a registration has just been refused for a type whose pool
\* holds a component for every id.
RefusedWithStoredComponents ==
    /\ cmLast.op = "registerComponentType"
    /\ ~cmLast.ok
    /\ \A id \in CmIds : CmHasComponent(cm, cmLast.type, id)

(***************************************************************************)
(* Error handling of the Scene's entity and component facade.              *)
(***************************************************************************)

DestroyEntityPurges ==
    [][(sceneLast'.op = "destroyEntity" /\ sceneLast'.entity \in built)
        => LET h == sceneLast'.entity IN
           /\ sceneLast'.ok
           /\ ~isEntityValid(sceneEM', h)
           /\ sceneEM'.entityGens[h.id + 1] = h.gen + 1
           /\ sceneEM'.entityMasks[h.id + 1] = NULL_MASK
           /\ \E k \in 1 .. Len(sceneEM'.recycledIDs) :
                 sceneEM'.recycledIDs[k] = h.id
           /\ \A T \in DOMAIN sceneCM'.idMap :
                 ~CmHasComponent(sceneCM', T, h.id)]_vars

(***************************************************************************)
(* Capacity and failure of the entity registry.                            *)
(***************************************************************************)

\* C17: the registry never holds more than maxID slots and never returns
\* an id >= maxID, and a create made when maxID ids have been minted and
\* the free list is empty throws.
CapacityRespected ==
    /\ [](/\ Len(em.entityGens) <= em.maxID
          /\ Len(em.entityMasks) <= em.maxID
          /\ em.newID <= em.maxID
          /\ (emLast.op = "addEntity" /\ emLast.ok)
                => emLast.entity.id < em.maxID)
    /\ [][(/\ emLast'.op = "addEntity"
            /\ em.newID = em.maxID
            /\ em.recycledIDs = <<>>)
            => (~emLast'.ok /\ em' = em)]_vars

\* C17 witness: a create given a non-empty mask has just thrown with every
\* id minted and the free list empty.
CreateRefusedAtCapacity ==
    /\ emLast.op = "addEntity"
    /\ ~emLast.ok
    /\ emLast.mask # NULL_MASK
    /\ em.newID = em.maxID
    /\ em.recycledIDs = <<>>

\* C18: whenever the free list is not empty, a create (given a non-empty
\* mask) returns, and returns the identifier on top of the free list, also
\* when every fresh identifier has been minted.
CreateSucceedsWhileIdFree ==
    [][(/\ emLast'.op = "addEntity"
        /\ emLast'.mask # NULL_MASK
        /\ em.recycledIDs # <<>>)
        => /\ emLast'.ok
           /\ emLast'.entity.id = em.recycledIDs[Len(em.recycledIDs)]]_vars

\* C19: a create that throws leaves the registry as it was: number of
\* slots, next fresh id, free list, and every generation and mask.
FailedCreateChangesNothing ==
    [][(emLast'.op = "addEntity" /\ ~emLast'.ok) => em' = em]_vars

(***************************************************************************)
(* Frame of the Scene's component operations.                              *)
(***************************************************************************)

\* C20: an addComponent<T>(e, v) on an entity e that createEntity built,
\* with T registered, returns, stores a T component for e and sets e's mask
\* to the old mask with T's bit added; e's generation, e's components of
\* other types and every other slot's mask and generation are unchanged.
AddComponentSetsBitOnly ==
    [][(/\ sceneLast'.op = "addComponent"
        /\ sceneLast'.entity \in built
        /\ sceneLast'.types \subseteq DOMAIN sceneCM.idMap)
        => LET e == sceneLast'.entity IN
           /\ sceneLast'.ok
           /\ \A T \in sceneLast'.types :
                 /\ CmHasComponent(sceneCM', T, e.id)
                 /\ sceneEM'.entityMasks[e.id + 1]
                       = sceneEM.entityMasks[e.id + 1] \cup {sceneCM.idMap[T]}
                 /\ \A U \in DOMAIN sceneCM.idMap \ {T} :
                       getPool(sceneCM', U) = getPool(sceneCM, U)
           /\ sceneEM'.entityGens = sceneEM.entityGens
           /\ \A id \in 0 .. Len(sceneEM.entityMasks) - 1 :
                 id # e.id
                   => sceneEM'.entityMasks[id + 1] = sceneEM.entityMasks[id + 1]]_vars

\* C21: a removeComponent<T>(e) on an entity e that createEntity built,
\* with T registered, returns and leaves e valid, without a T component,
\* with its mask equal to the old mask less T's bit and with the pools of
\* every other type as they were.
RemoveComponentClearsBitOnly ==
    [][(/\ sceneLast'.op = "removeComponent"
        /\ sceneLast'.entity \in built
        /\ sceneLast'.types \subseteq DOMAIN sceneCM.idMap)
        => LET e == sceneLast'.entity IN
           /\ sceneLast'.ok
           /\ isEntityValid(sceneEM', e)
           /\ \A T \in sceneLast'.types :
                 /\ ~CmHasComponent(sceneCM', T, e.id)
                 /\ sceneEM'.entityMasks[e.id + 1]
                       = sceneEM.entityMasks[e.id + 1] \ {sceneCM.idMap[T]}
                 /\ \A U \in DOMAIN sceneCM.idMap \ {T} :
                       getPool(sceneCM', U) = getPool(sceneCM, U)]_vars

\* C25: for every entity e that createEntity built and every non-empty
\* set of registered types, hasComponents returns, and returns true if and
\* only if every type of the set is attached to e; and hasComponent<T>(e)
\* gives what hasComponents<T>(e) gives.
HasComponentsIffAllAttached ==
    \A entity \in built :
        \A Ts \in SUBSET (DOMAIN sceneCM.idMap) \ {{}} :
            LET r == hasComponents(sceneEM, sceneCM, entity, Ts) IN
            /\ r.ok
            /\ r.ret <=> \A T \in Ts : CmHasComponent(sceneCM, T, entity.id)
            /\ \A T \in Ts :
                  hasComponent(sceneEM, sceneCM, entity, T)
                    = hasComponents(sceneEM, sceneCM, entity, {T})

(***************************************************************************)
(* Error handling of the component registry.                               *)
(***************************************************************************)

MasksAreDistinctBits ==
    /\ Len(cm.maskMap) <= MaskWidth
    /\ \A i \in 1 .. Len(cm.maskMap) :
          /\ Cardinality(cm.maskMap[i]) = 1
          /\ \A bit \in cm.maskMap[i] : bit >= 0 /\ bit < MaskWidth
          /\ \A j \in 1 .. Len(cm.maskMap) :
                cm.maskMap[i] = cm.maskMap[j] => i = j

\* C26: for every identifier the stored generation never decreases, goes
\* up by exactly one on a successful destroy of the identifier and is left
\* alone by every other call; and no create returns a handle (identifier
\* and generation) that was issued and destroyed before.
GenerationMonotonic ==
    /\ [][\A id \in 0 .. Len(em.entityGens) - 1 :
            IF /\ emLast'.op = "removeEntity"
               /\ emLast'.ok
               /\ emLast'.entity.id = id
            THEN em'.entityGens[id + 1] = em.entityGens[id + 1] + 1
            ELSE em'.entityGens[id + 1] = em.entityGens[id + 1]]_vars
    /\ [][(emLast'.op = "addEntity" /\ emLast'.ok)
            => emLast'.entity \notin retired]_vars

\* C27: the unit list is sorted by non-decreasing priority, every type
\* occurs in it at most once, the keys of indexMap are the types of the
\* list, and indexMap gives each type the position its unit has (so
\* getSystem<S> gives the unit of type S).
SystemsSortedAndIndexed ==
    /\ SortedByPriority(systems)
    /\ \A i, j \in 1 .. Len(systems) :
          systems[i].type = systems[j].type => i = j
    /\ DOMAIN indexMap = {systems[k].type : k \in 1 .. Len(systems)}
    /\ \A T \in DOMAIN indexMap :
          /\ indexMap[T] >= 0 /\ indexMap[T] < Len(systems)
          /\ systems[indexMap[T] + 1].type = T
          /\ getSystem(systems, indexMap, T).ret.type = T

\* C27 witness: a removeSystem of a unit of the lower priority has just
\* returned and MovementSystem has moved down to the second position.
RemovedBeforeMovementSystem ==
    /\ sysLast.op = "removeSystem"
    /\ sysLast.ok
    /\ getPriority(sysLast.type) < getPriority("MovementSystem")
    /\ Len(systems) = 2
    /\ systems[2].type = "MovementSystem"

\* C28: addSystem of a type that is present throws; removeSystem,
\* getSystem, isSystemEnabled and setSystemEnabled of a type that is not
\* present throw; a call that throws leaves the unit list, the flags and
\* the index as they were; and after a removeSystem<S> that returns,
\* hasSystem<S> is false and the other units keep their order and flags.
SystemErrorsChangeNothing ==
    /\ [](\A T \in SystemTypes :
            IF hasSystem(indexMap, T)
            THEN addSystem(systems, indexMap, T) = {}
            ELSE /\ removeSystem(systems, indexMap, T)
                      = [ok |-> FALSE, systems |-> systems, indexMap |-> indexMap]
                 /\ ~getSystem(systems, indexMap, T).ok
                 /\ ~isSystemEnabled(systems, indexMap, T).ok
                 /\ \A v \in BOOLEAN :
                       setSystemEnabled(systems, indexMap, T, v)
                         = [ok |-> FALSE, systems |-> systems])
    /\ [][(sysLast'.op # "update" /\ ~sysLast'.ok)
            => (systems' = systems /\ indexMap' = indexMap)]_vars
    /\ [][(sysLast'.op = "removeSystem" /\ sysLast'.ok)
            => LET others(unit) == unit.type # sysLast'.type IN
               /\ ~hasSystem(indexMap', sysLast'.type)
               /\ systems' = SelectSeq(systems, others)]_vars

\* C28 witness: a removeSystem of a type that is not present has just
\* thrown in a Scene of two units of which one is disabled.
RemoveOfAbsentSystemRefused ==
    /\ sysLast.op = "removeSystem"
    /\ ~sysLast.ok
    /\ Len(systems) = 2
    /\ \E k \in 1 .. 2 : ~systems[k].enabled

AssignAppendsOrOverwrites ==
    /\ [](\A id \in PoolIds, v \in Components :
            LET q == PoolAssignComponent(pool, id, v) IN
            /\ PoolGetComponent(q, id) = [ok |-> TRUE, ret |-> v]
            /\ IF PoolHasComponent(pool, id)
               THEN /\ PoolSize(q) = PoolSize(pool)
                    /\ IndexOf(q, id) = IndexOf(pool, id)
               ELSE /\ PoolSize(q) = PoolSize(pool) + 1
                    /\ IndexOf(q, id) = PoolSize(pool)
            /\ \A other \in PoolIds \ {id} :
                  /\ IndexOf(q, other) = IndexOf(pool, other)
                  /\ PoolGetComponent(q, other) = PoolGetComponent(pool, other))
    /\ [][poolLast'.op = "assignComponent"
            => \E v \in Components :
                  pool' = PoolAssignComponent(pool, poolLast'.id, v)]_vars

\* C32 witness: an assignComponent has just overwritten the component of
\* an id that sits in the first dense slot of a pool of three.
AssignOverwroteFirstOfThree ==
    /\ poolLast.op = "assignComponent"
    /\ poolLast.index = 0
    /\ PoolSize(pool) = 3
    /\ \E other \in PoolIds :
          PoolGetComponent(pool, other).ret # PoolGetComponent(pool, poolLast.id).ret

\* C33: a pool's getComponent(id) throws exactly when hasComponent(id) is
\* false, and hasComponent(id) is false, not an error, for an id beyond the
\* sparse index; Scene::getComponent<T>(e) throws for every handle e, a
\* valid one included, whose id has no component of type T (and returns
\* the stored component of a valid one that has it).  Both functions only
\* read, so a throw leaves all state as it was.
GetOfMissingComponentThrows ==
    LET twoLive == addEntity(addEntity(EntityManager(SIZE_MAX, StartID),
                                       {0}).em, {0}).em
    IN
    \A T \in ComponentTypes, id \in 0 .. MaxCmId + 1 :
        LET entity == [id |-> id, gen |-> 0] IN
        /\ isComponentTypeRegistered(cm, T)
              => /\ PoolGetComponent(getPool(cm, T), id).ok
                       <=> PoolHasComponent(getPool(cm, T), id)
                 /\ id >= Len(getPool(cm, T).sparseMap)
                       => ~PoolHasComponent(getPool(cm, T), id)
        /\ isEntityValid(twoLive, entity) <=> id <= 1
        /\ getComponent(twoLive, cm, entity, T).ok
              <=> (isEntityValid(twoLive, entity) /\ CmHasComponent(cm, T, id))
        /\ getComponent(twoLive, cm, entity, T).ok
              => getComponent(twoLive, cm, entity, T).ret
                   = getPool(cm, T).densePool[getPool(cm, T).sparseMap[id + 1] + 1]
        /\ ~getComponent(sceneEM, cm, entity, T).ok

\* C33 witness: an unassignComponent has returned and left a registered
\* pool that holds id 1, no longer holds id 0, and has no sparse entry for
\* id 2, next to a type that is not registered.
PoolWithUnassignedAndUnseenIds ==
    /\ cmLast.op = "unassignComponent"
    /\ cmLast.ok
    /\ ~CmHasComponent(cm, cmLast.type, 0)
    /\ CmHasComponent(cm, cmLast.type, 1)
    /\ Len(getPool(cm, cmLast.type).sparseMap) = 2
    /\ \E T \in ComponentTypes : ~isComponentTypeRegistered(cm, T)

\* C34: the registered types have the ids 0, 1, 2, ... in the order of
\* their registration, the mask of a type is the single bit 1 << id, so
\* distinct types have distinct ids and distinct one-bit masks, and a
\* registered type keeps its id and its mask.
DenseIdsAndOneBitMasks ==
    /\ [](/\ {cm.idMap[T] : T \in DOMAIN cm.idMap} = 0 .. cm.nextID - 1
           /\ Len(cm.maskMap) = cm.nextID
           /\ \A T \in DOMAIN cm.idMap :
                 /\ getComponentTypeMask(cm, T).ret = {cm.idMap[T]}
                 /\ \A U \in DOMAIN cm.idMap \ {T} :
                       /\ cm.idMap[U] # cm.idMap[T]
                       /\ getComponentTypeMask(cm, U).ret
                             # getComponentTypeMask(cm, T).ret)
    /\ [][/\ \A T \in DOMAIN cm.idMap :
                /\ T \in DOMAIN cm'.idMap
                /\ cm'.idMap[T] = cm.idMap[T]
                /\ getComponentTypeMask(cm', T) = getComponentTypeMask(cm, T)
          /\ \A U \in DOMAIN cm'.idMap \ DOMAIN cm.idMap :
                cm'.idMap[U] = Cardinality(DOMAIN cm.idMap)]_vars

\* C35: on a valid handle h, getMask(h) after setMask(h, m) is m, after
\* addMask(h, m) it is old OR m, after removeMask(h, m) it is old AND NOT m;
\* each leaves the generations, the free list, the next fresh id and the
\* masks of all other slots as they were; on an invalid handle all four
\* throw and change nothing.
MaskOpsReadBack ==
    \A entity \in Entities, mask \in Masks :
        LET old     == getMask(em, entity)
            set     == setMask(em, entity, mask)
            add     == addMask(em, entity, mask)
            rem     == removeMask(em, entity, mask)
            frame(m) ==
                /\ m.entityGens = em.entityGens
                /\ m.recycledIDs = em.recycledIDs
                /\ m.newID = em.newID
                /\ Len(m.entityMasks) = Len(em.entityMasks)
                /\ \A k \in 1 .. Len(em.entityMasks) :
                      k # entity.id + 1 => m.entityMasks[k] = em.entityMasks[k]
        IN  IF isActive(em, entity)
            THEN /\ old.ok /\ set.ok /\ add.ok /\ rem.ok
                 /\ getMask(set.em, entity) = [ok |-> TRUE, ret |-> mask]
                 /\ getMask(add.em, entity)
                       = [ok |-> TRUE, ret |-> old.ret \cup mask]
                 /\ getMask(rem.em, entity)
                       = [ok |-> TRUE, ret |-> old.ret \ mask]
                 /\ frame(set.em) /\ frame(add.em) /\ frame(rem.em)
            ELSE /\ ~old.ok /\ ~set.ok /\ ~add.ok /\ ~rem.ok
                 /\ set.em = em /\ add.em = em /\ rem.em = em

\* C37: every minted identifier is either live (the handle with its stored
\* generation is valid) or on the free list.
NoIdentifierLeaked ==
    \A id \in 0 .. Len(em.entityGens) - 1 :
        \/ isActive(em, [id |-> id, gen |-> em.entityGens[id + 1]])
        \/ \E k \in 1 .. Len(em.recycledIDs) : em.recycledIDs[k] = id

\* C38: the free list holds no identifier twice and none whose slot is
\* valid under its stored generation; an identifier enters the free list
\* only by a successful destroy of it, and a successful create returns a
\* fresh identifier or one taken from the free list, so two successive
\* creates do not return the same identifier.
FreeListDisjointFromLive ==
    /\ [](/\ \A j, k \in 1 .. Len(em.recycledIDs) :
                em.recycledIDs[j] = em.recycledIDs[k] => j = k
          /\ \A k \in 1 .. Len(em.recycledIDs) :
                /\ em.recycledIDs[k] < Len(em.entityGens)
                /\ ~isActive(em, [id  |-> em.recycledIDs[k],
                                  gen |-> em.entityGens[em.recycledIDs[k] + 1]])
          /\ \A id \in 0 .. Len(em.entityGens) - 1 :
                Cardinality({e \in Entities : e.id = id /\ isActive(em, e)}) <= 1)
    /\ [][\A id \in 0 .. MaxEntities :
            LET listed(m) == \E k \in 1 .. Len(m.recycledIDs) : m.recycledIDs[k] = id
            IN  /\ (listed(em') /\ ~listed(em))
                      => (emLast'.op = "removeEntity" /\ emLast'.ok
                          /\ emLast'.entity.id = id)
                /\ (emLast'.op = "addEntity" /\ emLast'.ok
                     /\ emLast'.entity.id = id)
                      => /\ listed(em) \/ id = Len(em.entityGens)
                         /\ ~listed(em')
                         /\ ~(emLast.op = "addEntity" /\ emLast.ok
                              /\ emLast.entity.id = id)]_vars

\* C38 witness: a create has just returned a recycled identifier while
\* another identifier is still on the free list.
CreateTookOneOfTwoFreeIds ==
    /\ emLast.op = "addEntity"
    /\ emLast.ok
    /\ emLast.entity.gen > 0
    /\ Len(em.recycledIDs) = 1
    /\ em.recycledIDs[1] # emLast.entity.id
    /\ isActive(em, emLast.entity)

\* C39: an EntityManager constructed with the starting id newid = k > 0
\* returns from its first create (of a mask that is not NULL_MASK) a valid
\* handle with the id k; the generation and mask vectors have equal length
\* and both have a slot for every identifier that has been handed out.
StartingIdHonoured ==
    /\ [](/\ Len(em.entityGens) = Len(em.entityMasks)
          /\ \A id \in em.newID - Len(em.entityGens) .. em.newID - 1 :
                id < Len(em.entityGens))
    /\ [][(/\ Len(em.entityGens) = 0
           /\ emLast'.op = "addEntity"
           /\ emLast'.mask # NULL_MASK)
            => /\ emLast'.ok
               /\ emLast'.entity.id = em.newID
               /\ isActive(em', emLast'.entity)]_vars

====
